---- MODULE Spec2Model ----
(***************************************************************************)
(* A model of the lab_grader grading core: Criterion (criterion.rs),       *)
(* Criteria (criteria.rs) and Submission::grade_against (submission.rs).   *)
(***************************************************************************)
EXTENDS Integers, Sequences, FiniteSets, TLC

VARIABLES
    criteria,         \* Criteria.0 : Vec<Criterion>
    crit,             \* a standalone Criterion not (yet) owned by a Criteria: <<>> or <<c>>
    sub,              \* the Submission
    proc,             \* "running", "exited" (process::exit) or "panicked" (unwinding)
    exit_code,        \* the status handed to process::exit, 0 while running
    overflow_checks,  \* build profile: TRUE = arithmetic overflow panics, FALSE = it wraps
    ret,              \* what the last operation was and what it returned
    log               \* one record per grade_against call on sub (history, for the properties)

vars == <<criteria, crit, sub, proc, exit_code, overflow_checks, ret, log>>

(***************************************************************************)
(* Bounds of the model.                                                    *)
(***************************************************************************)
MaxCriteria == 2
MaxPasses == 2
MaxOwned == 1

(***************************************************************************)
(* Option<T> is a sequence of length 0 (None) or 1 (Some).                 *)
(***************************************************************************)
None == << >>
Some(x) == <<x>>
IsSome(o) == Len(o) = 1
IsNone(o) == Len(o) = 0
Unwrap(o) == o[1]

(***************************************************************************)
(* TestData = HashMap<String, String>: a function from a finite set of     *)
(* keys to values.                                                         *)
(***************************************************************************)
Keys == {"key"}
Values == {"value", "other"}
EmptyData == [k \in {} |-> "value"]
DataSet == UNION {[D -> Values] : D \in SUBSET Keys}
ContainsKey(data, k) == k \in DOMAIN data

(***************************************************************************)
(* The closures the tests and doc examples box as a criterion's test.      *)
(* Indexing a HashMap with a missing key panics.                           *)
(***************************************************************************)
Tests == {"always_true", "always_false", "key_is_value"}
Returned(b) == [panicked |-> FALSE, value |-> b]
Panicked == [panicked |-> TRUE, value |-> FALSE]
Call(test, data) ==
    CASE test = "always_true" -> Returned(TRUE)
      [] test = "always_false" -> Returned(FALSE)
      [] test = "key_is_value" ->
            IF ContainsKey(data, "key") THEN Returned(data["key"] = "value") ELSE Panicked

(***************************************************************************)
(* i16 arithmetic of Submission.grade.                                     *)
(***************************************************************************)
I16Modulus == 65536
I16Max == 32767
I16Min == -32768
InI16(x) == I16Min <= x /\ x <= I16Max
WrapI16(x) == ((x - I16Min) % I16Modulus) + I16Min
\* a += b on i16: panics in a build with overflow checks, wraps otherwise
AddI16(a, b, checks) ==
    IF InI16(a + b) THEN Returned(a + b)
    ELSE IF checks THEN [panicked |-> TRUE, value |-> a]
    ELSE Returned(WrapI16(a + b))

(***************************************************************************)
(* Criterion (criterion.rs).                                               *)
(***************************************************************************)
\* Criterion::new(name, worth, messages, test)
New_StartsFailed(name, worth, messages, test) ==
    [stub |-> "none",
     name |-> name,
     worth |-> worth,
     messages |-> messages,
     desc |-> "",
     test |-> test,
     status |-> Some(FALSE),
     hide |-> FALSE]
New(name, worth, messages, test) ==
    [stub |-> "none",
     name |-> name,
     worth |-> worth,
     messages |-> messages,
     desc |-> "",
     test |-> test,
     status |-> None,
     hide |-> FALSE]

set_desc(c, desc) == [c EXCEPT !.desc = desc]

success_message(c) == c.messages[1]

failure_message_GivesSuccess(c) == c.messages[1]
failure_message(c) == c.messages[2]

hide(c, state) == [c EXCEPT !.hide = state]

\* Criterion::attach(test)
attach_ResetsStatus(c, test) == [c EXCEPT !.test = test, !.status = None]
attach(c, test) == [c EXCEPT !.test = test]

\* Criterion::test_with_data(data): the closure runs first; if it panics the
\* assignment to status never happens.  Gives the criterion afterwards, whether
\* the call unwound, and the value returned.
test_with_data_StickyStatus(c, data) ==
    LET r == Call(c.test, data) IN
    IF r.panicked THEN [crit |-> c, panicked |-> TRUE, value |-> FALSE]
    ELSE IF IsSome(c.status) THEN [crit |-> c, panicked |-> FALSE, value |-> r.value]
    ELSE [crit |-> [c EXCEPT !.status = Some(r.value)], panicked |-> FALSE, value |-> r.value]
test_with_data(c, data) ==
    LET r == Call(c.test, data) IN
    IF r.panicked THEN [crit |-> c, panicked |-> TRUE, value |-> FALSE]
    ELSE LET c2 == [c EXCEPT !.status = Some(r.value)] IN
         [crit |-> c2, panicked |-> FALSE, value |-> Unwrap(c2.status)]

\* Criterion::test(): test_with_data with an empty TestData
test(c) == test_with_data(c, EmptyData)

(***************************************************************************)
(* Criteria (criteria.rs): Criteria(pub Vec<Criterion>).                   *)
(***************************************************************************)
\* Criteria::add
add_Prepends(cs, c) == <<c>> \o cs
add(cs, c) == Append(cs, c)

\* Criteria::new()
criteria_new == << >>

\* impl FromIterator<Criterion> for Criteria: new(), then add() of every item
RECURSIVE from_iter_loop(_, _)
from_iter_loop(acc, iter) ==
    IF iter = << >> THEN acc
    ELSE from_iter_loop(add(acc, Head(iter)), Tail(iter))
from_iter(iter) == from_iter_loop(criteria_new, iter)

\* Criteria::from(criteria: Vec<Criterion>)
from(v) == from_iter(v)

\* Criteria::get: iter_mut().find(|c| c.stub == stub); gives the position of the
\* member found (0 for Option::None)
Matching(cs, stub) == {i \in 1..Len(cs) : cs[i].stub = stub}
Min(S) == CHOOSE x \in S : \A y \in S : x <= y
Max(S) == CHOOSE x \in S : \A y \in S : x >= y
get_LastMatch(cs, stub) == IF Matching(cs, stub) = {} THEN 0 ELSE Max(Matching(cs, stub))
RECURSIVE find(_, _, _)
find(cs, stub, i) ==
    IF i > Len(cs) THEN 0
    ELSE IF cs[i].stub = stub THEN i
    ELSE find(cs, stub, i + 1)
get(cs, stub) == find(cs, stub, 1)

\* Criteria::attach(stub, func): gives the members afterwards and the exit
\* status when the process is ended (0: the call returns)
criteria_attach_NoExit(cs, stub, func) ==
    LET i == get(cs, stub) IN
    IF i # 0 THEN [criteria |-> [cs EXCEPT ![i] = attach(cs[i], func)], exit |-> 0]
    ELSE [criteria |-> cs, exit |-> 0]
criteria_attach(cs, stub, func) ==
    LET i == get(cs, stub) IN
    IF i # 0 THEN [criteria |-> [cs EXCEPT ![i] = attach(cs[i], func)], exit |-> 0]
    ELSE [criteria |-> cs, exit |-> 1]

\* Criteria::len
len(cs) == Len(cs)

(***************************************************************************)
(* usize arithmetic of Criteria::total_points, on a 64-bit target.  A      *)
(* usize is kept as four 16-bit limbs, most significant first, so that no  *)
(* number of the model leaves the range of the checker's integers.         *)
(***************************************************************************)
LimbBase == 65536
UsizeZero == <<0, 0, 0, 0>>
\* `w as usize` for an i16 w sign-extends: a negative w becomes 2^64 + w
AsUsize(w) ==
    IF w >= 0 THEN <<0, 0, 0, w>>
    ELSE <<LimbBase - 1, LimbBase - 1, LimbBase - 1, LimbBase + w>>
\* the usize u is the number n (n below 2^32 here)
UsizeIs(u, n) == n >= 0 /\ u = <<0, 0, n \div LimbBase, n % LimbBase>>
\* a + b limb by limb; carry out of the top limb is the overflow
AddLimbs(a, b) ==
    LET s4 == a[4] + b[4]
        s3 == a[3] + b[3] + (s4 \div LimbBase)
        s2 == a[2] + b[2] + (s3 \div LimbBase)
        s1 == a[1] + b[1] + (s2 \div LimbBase)
    IN  [sum |-> <<s1 % LimbBase, s2 % LimbBase, s3 % LimbBase, s4 % LimbBase>>,
         overflow |-> (s1 \div LimbBase) > 0]
\* a += b on usize: panics in a build with overflow checks, wraps otherwise
AddUsize(a, b, checks) ==
    LET r == AddLimbs(a, b) IN
    IF r.overflow /\ checks THEN [panicked |-> TRUE, value |-> a]
    ELSE Returned(r.sum)

\* Criteria::total_points: total: usize = 0; for crit { total += crit.worth as usize }
RECURSIVE total_loop(_, _, _, _)
total_loop(cs, i, total, checks) ==
    IF i > Len(cs) THEN Returned(total)
    ELSE LET r == AddUsize(total, AsUsize(cs[i].worth), checks) IN
         IF r.panicked THEN r ELSE total_loop(cs, i + 1, r.value, checks)
total_points(cs, checks) == total_loop(cs, 1, UsizeZero, checks)

(***************************************************************************)
(* Submission (submission.rs).                                             *)
(***************************************************************************)
Now == "2020-05-01T22:23:21-05:00"

\* Submission::new
SubmissionNew ==
    [time |-> Now, grade |-> 0, data |-> EmptyData, passed |-> << >>, failed |-> << >>]

use_data(s, data) == [s EXCEPT !.data = data]

from_data(data) == use_data(SubmissionNew, data)

pass_Overwrites(s, criterion) == [s EXCEPT !.passed = <<criterion>>]
pass(s, criterion) == [s EXCEPT !.passed = Append(@, criterion)]

fail(s, criterion) == [s EXCEPT !.failed = Append(@, criterion)]

\* format!("{}: {}", name, message)
Format(name, message) == name \o ": " \o message

(***************************************************************************)
(* The rubric's Criterion builder (crate::rubric::Criterion), which         *)
(* CriterionYaml::into_criterion drives, and the registry of named         *)
(* predicates it looks func up in, are not among the sources; they are     *)
(* written from the specification: stub and name are both the mapping key, *)
(* absent optional fields keep the builder's defaults, and a func the      *)
(* registry does not hold terminates the process.                          *)
(***************************************************************************)
Registry == {"always_true", "always_false", "key_is_value"}
DefaultMessages == <<"passed", "failed">>
DefaultTest == "always_false"

\* Criterion::new(&name), the builder's start
builder_new(name) ==
    [stub |-> name,
     name |-> name,
     worth |-> 0,
     messages |-> DefaultMessages,
     desc |-> "",
     test |-> DefaultTest,
     hide |-> FALSE,
     index |-> None,
     exit |-> FALSE]
builder_worth(b, worth) == [b EXCEPT !.worth = worth]
builder_messages(b, success, failure) == [b EXCEPT !.messages = <<success, failure>>]
builder_func_DefaultsOnMiss(b, func) ==
    IF func \in Registry THEN [b EXCEPT !.test = func] ELSE b
builder_func(b, func) ==
    IF func \in Registry THEN [b EXCEPT !.test = func] ELSE [b EXCEPT !.exit = TRUE]
builder_hide(b, h) == [b EXCEPT !.hide = h]
builder_desc(b, desc) == [b EXCEPT !.desc = desc]
builder_index(b, index) == [b EXCEPT !.index = Some(index)]
\* builder.build(): the criterion, not yet run
build(b) ==
    [stub |-> b.stub,
     name |-> b.name,
     worth |-> b.worth,
     messages |-> b.messages,
     desc |-> b.desc,
     test |-> b.test,
     status |-> None,
     hide |-> b.hide,
     index |-> b.index]

\* CriterionYaml::into_criterion(self, name); y = [func, index, desc, worth,
\* messages, hide], the optional ones as Option.  Gives the criterion and
\* whether the process was terminated on the way.
into_criterion_DropsDesc(y, name) ==
    LET b0 == builder_worth(builder_new(name), y.worth)
        b1 == IF IsSome(y.messages)
              THEN builder_messages(b0, Unwrap(y.messages)[1], Unwrap(y.messages)[2])
              ELSE b0
        b2 == IF IsSome(y.func) THEN builder_func(b1, Unwrap(y.func)) ELSE b1
        b3 == IF IsSome(y.hide) THEN builder_hide(b2, Unwrap(y.hide)) ELSE b2
        b5 == IF IsSome(y.index) THEN builder_index(b3, Unwrap(y.index)) ELSE b3
    IN  [crit |-> build(b5), exit |-> b5.exit]
into_criterion(y, name) ==
    LET b0 == builder_worth(builder_new(name), y.worth)
        b1 == IF IsSome(y.messages)
              THEN builder_messages(b0, Unwrap(y.messages)[1], Unwrap(y.messages)[2])
              ELSE b0
        b2 == IF IsSome(y.func) THEN builder_func(b1, Unwrap(y.func)) ELSE b1
        b3 == IF IsSome(y.hide) THEN builder_hide(b2, Unwrap(y.hide)) ELSE b2
        b4 == IF IsSome(y.desc) THEN builder_desc(b3, Unwrap(y.desc)) ELSE b3
        b5 == IF IsSome(y.index) THEN builder_index(b4, Unwrap(y.index)) ELSE b4
    IN  [crit |-> build(b5), exit |-> b5.exit]

\* Criteria::sorted(), called by grade_against, is not among the sources; it is
\* written from the specification: a stable sort by index, the members that
\* carry an index first in ascending index, then the members without one, each
\* group keeping its stored order among equals.  The members built by
\* Criterion::new carry no index and stay in stored order.  The result is the
\* sequence of positions in the order of evaluation.
IndexOf(c) == IF "index" \in DOMAIN c THEN c.index ELSE None
SortsBefore(cs, i, j) ==
    LET a == IndexOf(cs[i])
        b == IndexOf(cs[j])
    IN  CASE IsSome(a) /\ IsSome(b) ->
                Unwrap(a) < Unwrap(b) \/ (Unwrap(a) = Unwrap(b) /\ i < j)
          [] IsSome(a) /\ IsNone(b) -> TRUE
          [] IsNone(a) /\ IsSome(b) -> FALSE
          [] OTHER -> i < j
sorted(cs) ==
    [r \in 1..Len(cs) |->
        CHOOSE i \in 1..Len(cs) :
            Cardinality({j \in 1..Len(cs) : SortsBefore(cs, j, i)}) = r - 1]

\* The body of grade_against's loop for the member at position i.
\* st = [sub, criteria, panicked, evals]
grade_step_FailSubtracts(st, i, checks) ==
    LET t == test_with_data(st.criteria[i], st.sub.data)
        c == t.crit
        cs2 == [st.criteria EXCEPT ![i] = c]
        ev == Append(st.evals, i)
        g == AddI16(st.sub.grade, IF Unwrap(c.status) THEN c.worth ELSE 0 - c.worth, checks)
    IN  IF t.panicked THEN [st EXCEPT !.panicked = TRUE]
        ELSE IF Unwrap(c.status)
        THEN [sub |-> pass([st.sub EXCEPT !.grade = g.value],
                           Format(c.name, success_message(c))),
              criteria |-> cs2, panicked |-> FALSE, evals |-> ev]
        ELSE [sub |-> fail([st.sub EXCEPT !.grade = g.value],
                           Format(c.name, failure_message(c))),
              criteria |-> cs2, panicked |-> FALSE, evals |-> ev]
grade_step_ResetsFirst(st, i, checks) ==
    LET s0 == IF i = 1 THEN [st.sub EXCEPT !.grade = 0, !.passed = << >>, !.failed = << >>]
              ELSE st.sub
        t == test_with_data(st.criteria[i], s0.data)
        c == t.crit
        cs2 == [st.criteria EXCEPT ![i] = c]
        ev == Append(st.evals, i)
    IN  IF t.panicked THEN [st EXCEPT !.panicked = TRUE]
        ELSE IF Unwrap(c.status)
        THEN [sub |-> pass([s0 EXCEPT !.grade = s0.grade + c.worth],
                           Format(c.name, success_message(c))),
              criteria |-> cs2, panicked |-> FALSE, evals |-> ev]
        ELSE [sub |-> fail(s0, Format(c.name, failure_message(c))),
              criteria |-> cs2, panicked |-> FALSE, evals |-> ev]
grade_step_CatchesPanic(st, i, checks) ==
    LET t == test_with_data(st.criteria[i], st.sub.data)
        c == t.crit
        cs2 == [st.criteria EXCEPT ![i] = c]
        ev == Append(st.evals, i)
    IN  IF t.panicked
        THEN [sub |-> fail(st.sub, Format(c.name, failure_message(c))),
              criteria |-> cs2, panicked |-> FALSE, evals |-> ev]
        ELSE IF Unwrap(c.status)
        THEN LET g == AddI16(st.sub.grade, c.worth, checks) IN
             IF g.panicked
             THEN [sub |-> st.sub, criteria |-> cs2, panicked |-> TRUE, evals |-> ev]
             ELSE [sub |-> pass([st.sub EXCEPT !.grade = g.value],
                                Format(c.name, success_message(c))),
                   criteria |-> cs2, panicked |-> FALSE, evals |-> ev]
        ELSE [sub |-> fail(st.sub, Format(c.name, failure_message(c))),
              criteria |-> cs2, panicked |-> FALSE, evals |-> ev]
grade_step(st, i, checks) ==
    LET t == test_with_data(st.criteria[i], st.sub.data)
        c == t.crit
        cs2 == [st.criteria EXCEPT ![i] = c]
        ev == Append(st.evals, i)
    IN  IF t.panicked THEN [st EXCEPT !.panicked = TRUE]
        ELSE IF Unwrap(c.status)
        THEN LET g == AddI16(st.sub.grade, c.worth, checks) IN
             IF g.panicked
             THEN [sub |-> st.sub, criteria |-> cs2, panicked |-> TRUE, evals |-> ev]
             ELSE [sub |-> pass([st.sub EXCEPT !.grade = g.value],
                                Format(c.name, success_message(c))),
                   criteria |-> cs2, panicked |-> FALSE, evals |-> ev]
        ELSE [sub |-> fail(st.sub, Format(c.name, failure_message(c))),
              criteria |-> cs2, panicked |-> FALSE, evals |-> ev]

\* for crit in &mut criteria.sorted().into_iter() { ... }
RECURSIVE grade_loop_StopsAtFailure(_, _, _, _)
grade_loop_StopsAtFailure(st, order, k, checks) ==
    IF k > Len(order) \/ st.panicked \/ Len(st.sub.failed) > 0 THEN st
    ELSE grade_loop_StopsAtFailure(grade_step(st, order[k], checks), order, k + 1, checks)
RECURSIVE grade_loop_Reversed(_, _, _, _)
grade_loop_Reversed(st, order, k, checks) ==
    IF k > Len(order) \/ st.panicked THEN st
    ELSE grade_loop_Reversed(grade_step(st, order[Len(order) + 1 - k], checks),
                             order, k + 1, checks)
RECURSIVE grade_loop(_, _, _, _)
grade_loop(st, order, k, checks) ==
    IF k > Len(order) \/ st.panicked THEN st
    ELSE grade_loop(grade_step(st, order[k], checks), order, k + 1, checks)

\* Submission::grade_against(criteria)
grade_against_DropsPassed(s, cs, checks) ==
    LET r == grade_loop([sub |-> s, criteria |-> cs, panicked |-> FALSE, evals |-> << >>],
                        sorted(cs), 1, checks)
    IN  [r EXCEPT !.criteria = SelectSeq(r.criteria, LAMBDA c : c.status # Some(TRUE))]
grade_against(s, cs, checks) ==
    grade_loop([sub |-> s, criteria |-> cs, panicked |-> FALSE, evals |-> << >>],
               sorted(cs), 1, checks)

\* The submission as it stands before the loop's j-th iteration (j = 1 .. len + 1,
\* the last one being the submission the call leaves): the loop run over the
\* first j - 1 members of the order.  Kept in the history for the properties.
snapshots(s, cs, checks) ==
    [j \in 1..(Len(cs) + 1) |->
        grade_loop([sub |-> s, criteria |-> cs, panicked |-> FALSE, evals |-> << >>],
                   SubSeq(sorted(cs), 1, j - 1), 1, checks).sub]

(***************************************************************************)
(* The values the operations are driven with.                              *)
(***************************************************************************)
Worths == {10, 25, -5}
Messages == <<"p", "f">>
NameOf(w) == CASE w = 10 -> "test 1" [] w = 25 -> "test 2" [] OTHER -> "penalty"
\* criteria as the tests build them: Criterion::new(name, worth, ("p", "f"), closure)
Built == {New(NameOf(w), w, Messages, t) : w \in Worths, t \in Tests}

Running == proc = "running"

(***************************************************************************)
(* Operations on the Criteria collection and the Submission.               *)
(***************************************************************************)
\* criteria.add(c)
Add(c) ==
    /\ Running
    /\ Len(criteria) < MaxCriteria
    /\ criteria' = add(criteria, c)
    /\ ret' = [op |-> "add"]
    /\ UNCHANGED <<crit, sub, proc, exit_code, overflow_checks, log>>

\* sub.grade_against(&mut criteria)
GradeAgainst ==
    /\ Running
    /\ Len(log) < MaxPasses
    /\ LET r == grade_against(sub, criteria, overflow_checks) IN
       /\ sub' = r.sub
       /\ criteria' = r.criteria
       /\ proc' = IF r.panicked THEN "panicked" ELSE "running"
       /\ log' = Append(log, [n |-> Len(criteria), before |-> sub, after |-> r.sub,
                              evals |-> r.evals, panicked |-> r.panicked,
                              snaps |-> snapshots(sub, criteria, overflow_checks)])
    /\ ret' = [op |-> "grade_against"]
    /\ UNCHANGED <<crit, exit_code, overflow_checks>>

Init ==
    /\ criteria = << >>
    /\ crit = None
    /\ sub \in {from_data(d) : d \in DataSet}
    /\ proc = "running"
    /\ exit_code = 0
    /\ overflow_checks \in BOOLEAN
    /\ ret = [op |-> "init"]
    /\ log = << >>

Next ==
    \/ \E c \in Built : Add(c)
    \/ GradeAgainst

Spec == Init /\ [][Next]_vars

(***************************************************************************)
(* Criteria driven through add, get, attach and runs of its members.  The  *)
(* members are built by Criterion::new and given a stub (the field is      *)
(* public: crit.stub = String::from("test1")); the one worth 25 also had   *)
(* set_desc("short desc") and hide(true) called on it.                     *)
(***************************************************************************)
Stubs == {"none", "test1"}
AskedStubs == {"none", "test1", "test2"}
Plain == {"always_true", "always_false"}
Dress(c) == IF c.worth = 25 THEN hide(set_desc(c, "short desc"), TRUE) ELSE c
Stubbed ==
    {[Dress(New(NameOf(w), w, Messages, "always_false")) EXCEPT !.stub = st] :
        w \in {25, -5}, st \in Stubs}

\* criteria.get(stub)
Get(stub) ==
    /\ Running
    /\ ret' = [op |-> "get", stub |-> stub, pos |-> get(criteria, stub)]
    /\ UNCHANGED <<criteria, crit, sub, proc, exit_code, overflow_checks, log>>

\* criteria.attach(stub, func)
Attach(stub, func) ==
    /\ Running
    /\ LET r == criteria_attach(criteria, stub, func) IN
       /\ criteria' = r.criteria
       /\ proc' = IF r.exit # 0 THEN "exited" ELSE "running"
       /\ exit_code' = r.exit
    /\ ret' = [op |-> "attach", stub |-> stub, func |-> func]
    /\ UNCHANGED <<crit, sub, overflow_checks, log>>

\* criteria.0[i].test_with_data(&data)
TestMember(i, data) ==
    /\ Running
    /\ i \in 1..Len(criteria)
    /\ LET r == test_with_data(criteria[i], data) IN
       /\ criteria' = [criteria EXCEPT ![i] = r.crit]
       /\ proc' = IF r.panicked THEN "panicked" ELSE "running"
       /\ ret' = [op |-> "member.test_with_data", pos |-> i, data |-> data,
                  panicked |-> r.panicked, value |-> r.value]
    /\ UNCHANGED <<crit, sub, exit_code, overflow_checks, log>>

\* no operation of this specification does arithmetic: one build profile
InitCriteria ==
    /\ criteria = << >>
    /\ crit = None
    /\ sub = SubmissionNew
    /\ proc = "running"
    /\ exit_code = 0
    /\ overflow_checks = FALSE
    /\ ret = [op |-> "init"]
    /\ log = << >>

NextCriteria ==
    \/ \E c \in Stubbed : Add(c)
    \/ \E stub \in AskedStubs : Get(stub)
    \/ \E stub \in AskedStubs, func \in {"always_true", "key_is_value"} : Attach(stub, func)
    \/ \E i \in 1..MaxCriteria, data \in DataSet : TestMember(i, data)

SpecCriteria == InitCriteria /\ [][NextCriteria]_vars

(***************************************************************************)
(* Criteria::total_points on collections whose members have or have not    *)
(* been run.                                                               *)
(***************************************************************************)
\* criteria.total_points()
TotalPoints ==
    /\ Running
    /\ LET r == total_points(criteria, overflow_checks) IN
       /\ proc' = IF r.panicked THEN "panicked" ELSE "running"
       /\ ret' = [op |-> "total_points", panicked |-> r.panicked, value |-> r.value]
    /\ UNCHANGED <<criteria, crit, sub, exit_code, overflow_checks, log>>

InitTotal ==
    /\ criteria = << >>
    /\ crit = None
    /\ sub = SubmissionNew
    /\ proc = "running"
    /\ exit_code = 0
    /\ overflow_checks \in BOOLEAN
    /\ ret = [op |-> "init"]
    /\ log = << >>

NextTotal ==
    \/ \E w \in Worths, t \in Plain : Add(New(NameOf(w), w, Messages, t))
    \/ \E i \in 1..MaxCriteria : TestMember(i, EmptyData)
    \/ TotalPoints

SpecTotal == InitTotal /\ [][NextTotal]_vars

(***************************************************************************)
(* One Criterion from construction on: its own methods, then the move into *)
(* a Criteria (add takes the Criterion by value) and the collection's      *)
(* reads and runs.                                                         *)
(***************************************************************************)
\* the closures a criterion is built with and has attached here
Swapped == {"always_false", "key_is_value"}

\* let mut c = Criterion::new("A test criterion", 10, ("passed!", "failed!"), test)
NewCriterion(t) ==
    /\ Running
    /\ IsNone(crit)
    /\ crit' = Some(New("A test criterion", 10, <<"passed!", "failed!">>, t))
    /\ ret' = [op |-> "new"]
    /\ UNCHANGED <<criteria, sub, proc, exit_code, overflow_checks, log>>

\* c.set_desc(desc)
SetDesc(desc) ==
    /\ Running
    /\ IsSome(crit)
    /\ crit' = Some(set_desc(Unwrap(crit), desc))
    /\ ret' = [op |-> "set_desc"]
    /\ UNCHANGED <<criteria, sub, proc, exit_code, overflow_checks, log>>

\* c.hide(state)
Hide(state) ==
    /\ Running
    /\ IsSome(crit)
    /\ crit' = Some(hide(Unwrap(crit), state))
    /\ ret' = [op |-> "hide"]
    /\ UNCHANGED <<criteria, sub, proc, exit_code, overflow_checks, log>>

\* c.attach(test)
AttachTest(t) ==
    /\ Running
    /\ IsSome(crit)
    /\ crit' = Some(attach(Unwrap(crit), t))
    /\ ret' = [op |-> "attach_test", func |-> t]
    /\ UNCHANGED <<criteria, sub, proc, exit_code, overflow_checks, log>>

\* c.success_message()
SuccessMessage ==
    /\ Running
    /\ IsSome(crit)
    /\ ret' = [op |-> "success_message", value |-> success_message(Unwrap(crit))]
    /\ UNCHANGED <<criteria, crit, sub, proc, exit_code, overflow_checks, log>>

\* c.failure_message()
FailureMessage ==
    /\ Running
    /\ IsSome(crit)
    /\ ret' = [op |-> "failure_message", value |-> failure_message(Unwrap(crit))]
    /\ UNCHANGED <<criteria, crit, sub, proc, exit_code, overflow_checks, log>>

\* c.test_with_data(&data)
TestWithData(data) ==
    /\ Running
    /\ IsSome(crit)
    /\ LET r == test_with_data(Unwrap(crit), data) IN
       /\ crit' = Some(r.crit)
       /\ proc' = IF r.panicked THEN "panicked" ELSE "running"
       /\ ret' = [op |-> "test_with_data", data |-> data, prev |-> Unwrap(crit).status,
                  panicked |-> r.panicked, value |-> r.value]
    /\ UNCHANGED <<criteria, sub, exit_code, overflow_checks, log>>

\* c.test()
Test ==
    /\ Running
    /\ IsSome(crit)
    /\ LET r == test(Unwrap(crit)) IN
       /\ crit' = Some(r.crit)
       /\ proc' = IF r.panicked THEN "panicked" ELSE "running"
       /\ ret' = [op |-> "test", data |-> EmptyData, prev |-> Unwrap(crit).status,
                  panicked |-> r.panicked, value |-> r.value]
    /\ UNCHANGED <<criteria, sub, exit_code, overflow_checks, log>>

\* criteria.add(c): c is moved into the collection
AddOwned ==
    /\ Running
    /\ IsSome(crit)
    /\ Len(criteria) < MaxOwned
    /\ criteria' = add(criteria, Unwrap(crit))
    /\ crit' = None
    /\ ret' = [op |-> "add"]
    /\ UNCHANGED <<sub, proc, exit_code, overflow_checks, log>>

NextCriterion ==
    \/ \E t \in Swapped : NewCriterion(t)
    \/ SetDesc("short desc")
    \/ \E state \in BOOLEAN : Hide(state)
    \/ \E t \in Swapped : AttachTest(t)
    \/ SuccessMessage
    \/ FailureMessage
    \/ \E data \in DataSet : TestWithData(data)
    \/ Test
    \/ AddOwned
    \/ \E stub \in {"none", "test1"} : Get(stub)
    \/ TotalPoints
    \/ \E i \in 1..MaxOwned, data \in DataSet : TestMember(i, data)

SpecCriterion == InitTotal /\ [][NextCriterion]_vars

(***************************************************************************)
(* Properties of grade_against.                                            *)
(***************************************************************************)
\* what the predicates of the first n members give on data, computed apart from
\* the grading loop
Passing(cs, n, data) == {i \in 1..n : Call(cs[i].test, data) = Returned(TRUE)}
Failing(cs, n, data) == {i \in 1..n : Call(cs[i].test, data) = Returned(FALSE)}
RECURSIVE SumWorth(_, _)
SumWorth(cs, S) ==
    IF S = {} THEN 0
    ELSE LET i == CHOOSE x \in S : TRUE IN cs[i].worth + SumWorth(cs, S \ {i})
RECURSIVE SumEvals(_, _)
SumEvals(lg, k) == IF k = 0 THEN 0 ELSE Len(lg[k].evals) + SumEvals(lg, k - 1)
Fresh(s) == s.grade = 0 /\ s.passed = << >> /\ s.failed = << >>
\* the pass returned (no predicate panicked, no checked addition overflowed)
Completed(k) == k \in 1..Len(log) /\ ~log[k].panicked

\* C1: after one grade_against on a freshly created Submission, grade is the
\* sum of worth over exactly the criteria whose predicate returned true on the
\* submission's data; the failing ones contribute nothing.
C1_GradeIsSumOfPassingWorth ==
    (Completed(1) /\ Fresh(log[1].before)) =>
        log[1].after.grade = SumWorth(criteria, Passing(criteria, log[1].n, log[1].before.data))

C1_Witness ==
    /\ Len(log) = 1 /\ Completed(1) /\ log[1].n = 2
    /\ Fresh(log[1].before)
    /\ Cardinality(Passing(criteria, 2, sub.data)) = 1
    /\ Cardinality(Failing(criteria, 2, sub.data)) = 1
    /\ sub.grade = 25

\* C2: grade_against never stops early: whatever the predicates return, every
\* member is evaluated exactly once, in one pass, and adds exactly one entry,
\* to passed when its predicate returned true and to failed when it returned
\* false; a fresh Submission graded once has len(passed) + len(failed) = len(C).
C2_NoEarlyTermination ==
    \A k \in 1..Len(log) :
        Completed(k) =>
            /\ Len(log[k].evals) = log[k].n
            /\ \A i \in 1..log[k].n : Cardinality({j \in 1..Len(log[k].evals) : log[k].evals[j] = i}) = 1
            /\ Len(log[k].after.passed) - Len(log[k].before.passed)
                 = Cardinality(Passing(criteria, log[k].n, log[k].before.data))
            /\ Len(log[k].after.failed) - Len(log[k].before.failed)
                 = Cardinality(Failing(criteria, log[k].n, log[k].before.data))
            /\ Fresh(log[k].before) =>
                 Len(log[k].after.passed) + Len(log[k].after.failed) = log[k].n

C2_Witness ==
    /\ Len(log) = 1 /\ Completed(1) /\ log[1].n = 2
    /\ 1 \in Failing(criteria, 2, sub.data)
    /\ 2 \in Passing(criteria, 2, sub.data)
    /\ Len(sub.passed) = 1 /\ Len(sub.failed) = 1

\* C3: grading is not idempotent: a second grade_against on the same Submission
\* with the same Criteria and data keeps the entries of the first pass, appends
\* a duplicate of each, and adds every passing worth again: the grade doubles
\* and len(passed) + len(failed) = 2 * len(C).
SameSetTwice ==
    /\ Completed(1) /\ Completed(2) /\ Fresh(log[1].before)
    /\ log[1].n = log[2].n
    /\ log[2].before = log[1].after
C3_SecondPassDuplicates ==
    SameSetTwice =>
        /\ log[2].after.grade = 2 * log[1].after.grade
        /\ log[2].after.passed = log[1].after.passed \o log[1].after.passed
        /\ log[2].after.failed = log[1].after.failed \o log[1].after.failed
        /\ Len(log[2].after.passed) + Len(log[2].after.failed) = 2 * log[1].n
        /\ log[2].after.data = log[1].before.data

C3_Witness ==
    /\ Len(log) = 2 /\ SameSetTwice /\ log[1].n = 2
    /\ log[1].after.grade = 10
    /\ sub.grade = 20
    /\ Len(sub.passed) = 2 /\ Len(sub.failed) = 2

All(cs) == 1..Len(cs)

\* C5: total_points is the signed sum of worth over all members, negative
\* worths included, whatever the members' status.
C5_AsStated_TotalIsSignedSum ==
    ret.op = "total_points" =>
        /\ ~ret.panicked
        /\ UsizeIs(ret.value, SumWorth(criteria, All(criteria)))

\* C6: get(stub) gives none when no member has the stub, and otherwise the
\* member at the lowest position among those whose stub is the argument.
C6_GetGivesFirstMatch ==
    ret.op = "get" =>
        IF Matching(criteria, ret.stub) = {}
        THEN ret.pos = 0
        ELSE ret.pos = Min(Matching(criteria, ret.stub))

C6_Witness ==
    /\ ret.op = "get"
    /\ Matching(criteria, ret.stub) = {1, 2}
    /\ criteria[1] # criteria[2]
    /\ ret.pos = 1

\* C7: attach(stub, predicate) on a collection with no member of that stub ends
\* the process with a non-zero exit status: no member's predicate is replaced
\* and nothing runs after it.
C7_AttachAbsentStubExits ==
    /\ [][(ret'.op = "attach" /\ Matching(criteria, ret'.stub) = {}) =>
            /\ proc' = "exited"
            /\ exit_code' # 0
            /\ criteria' = criteria]_vars
    /\ [][proc = "exited" => UNCHANGED vars]_vars

C7_Witness ==
    /\ ret.op = "attach"
    /\ Len(criteria) = 2
    /\ Matching(criteria, ret.stub) = {}
    /\ proc = "exited"
    /\ exit_code = 1
    /\ \A i \in 1..2 : criteria[i].test # ret.func

\* C8: attach on a present stub replaces the test of the first matching member
\* only and leaves its status, stub, name, worth, messages, desc and hide, and
\* every other member, as they were; the next run of that member gives what the
\* new test gives and stores it in status.
C8_AttachReplacesOnlyTheTest ==
    /\ [][(ret'.op = "attach" /\ Matching(criteria, ret'.stub) # {}) =>
            LET i == Min(Matching(criteria, ret'.stub)) IN
            /\ criteria' = [criteria EXCEPT ![i].test = ret'.func]
            /\ criteria'[i].status = criteria[i].status
            /\ proc' = "running"
            /\ exit_code' = 0]_vars
    /\ [][(/\ ret.op = "attach"
           /\ Matching(criteria, ret.stub) # {}
           /\ ret'.op = "member.test_with_data"
           /\ ret'.pos = Min(Matching(criteria, ret.stub))) =>
            LET r == Call(ret.func, ret'.data) IN
            /\ ret'.panicked = r.panicked
            /\ ~r.panicked =>
                 /\ ret'.value = r.value
                 /\ criteria'[ret'.pos].status = Some(r.value)]_vars

C8_Witness ==
    /\ ret.op = "attach"
    /\ Matching(criteria, ret.stub) = {1, 2}
    /\ criteria[1].status = Some(FALSE)
    /\ criteria[1].test = "always_true"
    /\ criteria[1].hide /\ criteria[1].desc = "short desc"
    /\ criteria[2].test = "always_false"
    /\ ret.func = "always_true"

(***************************************************************************)
(* Properties of Criterion.                                                *)
(***************************************************************************)
RunOps == {"test_with_data", "test", "member.test_with_data"}
\* the criterion the last run was of
RunOf == IF ret.op = "member.test_with_data" THEN criteria[ret.pos] ELSE Unwrap(crit)
\* the status of every criterion there is: the members, then the standalone one
Statuses(cs, cr) ==
    [i \in 1..Len(cs) |-> cs[i].status] \o (IF IsSome(cr) THEN <<Unwrap(cr).status>> ELSE << >>)

\* C9: a run (test_with_data, or test with an empty TestData) returns what the
\* criterion's current test gives on the data and leaves status set to that
\* same value, whatever status held before.
C9_RunReturnsAndStoresResult ==
    ret.op \in RunOps =>
        LET r == Call(RunOf.test, ret.data) IN
        /\ ret.panicked = r.panicked
        /\ ret.op = "test" => ret.data = EmptyData
        /\ ~r.panicked =>
             /\ ret.value = r.value
             /\ RunOf.status = Some(r.value)

C9_Witness ==
    /\ ret.op = "test_with_data"
    /\ ret.prev = Some(TRUE)
    /\ ~ret.panicked /\ ~ret.value
    /\ Unwrap(crit).status = Some(FALSE)
    /\ Unwrap(crit).test = "key_is_value"

\* C10: a criterion is untested from construction (stub "none", hide false)
\* until it is run: attach, set_desc, hide, the message accessors, the move
\* into a Criteria, get and total_points leave every status as it is, and a
\* status that is set is never unset.
C10_UntestedUntilRun ==
    /\ [](ret.op = "new" =>
            /\ IsSome(crit)
            /\ Unwrap(crit).status = None
            /\ Unwrap(crit).stub = "none"
            /\ Unwrap(crit).hide = FALSE)
    /\ [][LET before == Statuses(criteria, crit)
              after == Statuses(criteria', crit')
          IN  /\ (ret'.op \notin RunOps \cup {"new"}) => after = before
              /\ ret'.op = "new" => (after = before \o <<None>> \/ after = before)
              /\ Len(after) >= Len(before)
              /\ \A i \in 1..Len(before) :
                    /\ IsSome(before[i]) => IsSome(after[i])
                    /\ (IsNone(before[i]) /\ IsSome(after[i])) => ret'.op \in RunOps]_vars

C10_Witness ==
    /\ ret.op = "total_points"
    /\ Len(criteria) = 1
    /\ criteria[1].status = None
    /\ criteria[1].desc = "short desc"
    /\ criteria[1].hide
    /\ criteria[1].test = "key_is_value"
    /\ IsSome(crit) /\ IsSome(Unwrap(crit).status)

(***************************************************************************)
(* Properties of one iteration of grade_against.                           *)
(***************************************************************************)
\* C11: inside grade_against a member whose test returned false leaves grade
\* and passed as they are and appends the one entry "{name}: {failure message}"
\* to failed; a member whose test returned true adds its worth to grade, also a
\* negative one, appends the one entry "{name}: {success message}" to passed
\* and leaves failed as it is.
C11_StepTouchesOneList ==
    \A k \in 1..Len(log) :
        Completed(k) =>
            \A j \in 1..Len(log[k].evals) :
                LET c == criteria[log[k].evals[j]]
                    was == log[k].snaps[j]
                    is == log[k].snaps[j + 1]
                IN  IF Call(c.test, log[k].before.data).value
                    THEN /\ is.grade = was.grade + c.worth
                         /\ is.passed = Append(was.passed, c.name \o ": " \o c.messages[1])
                         /\ is.failed = was.failed
                    ELSE /\ is.grade = was.grade
                         /\ is.passed = was.passed
                         /\ is.failed = Append(was.failed, c.name \o ": " \o c.messages[2])

C11_Witness ==
    /\ Len(log) = 1 /\ Completed(1) /\ log[1].n = 2
    /\ criteria[1].worth = -5 /\ 1 \in Passing(criteria, 2, sub.data)
    /\ criteria[2].worth = -5 /\ 2 \in Failing(criteria, 2, sub.data)
    /\ sub.grade = -5
    /\ sub.passed = <<"penalty: p">>
    /\ sub.failed = <<"penalty: f">>

(***************************************************************************)
(* Criteria built from rubric entries, some carrying an index, and graded. *)
(* The entries reach add in any order (RubricYaml.criteria is a HashMap).  *)
(***************************************************************************)
Yaml(func, index, desc, worth, messages, hidden) ==
    [func |-> func, index |-> index, desc |-> desc, worth |-> worth,
     messages |-> messages, hide |-> hidden]
Indexes == {1, 2}
OrderDefs ==
    {Yaml(Some(f), ix, None, 10, None, None) :
        f \in {"always_true", "always_false"},
        ix \in {None} \cup {Some(n) : n \in Indexes}}
\* the mapping key of the n-th entry
KeyAt(n) == CASE n = 1 -> "c1" [] n = 2 -> "c2" [] n = 3 -> "c3" [] OTHER -> "c4"

\* criteria.add(entry.into_criterion(key))
LoadOrdered(y) ==
    /\ Running
    /\ Len(criteria) < MaxCriteria
    /\ criteria' = add(criteria, into_criterion(y, KeyAt(Len(criteria) + 1)).crit)
    /\ ret' = [op |-> "load"]
    /\ UNCHANGED <<crit, sub, proc, exit_code, overflow_checks, log>>

NextOrder ==
    \/ \E y \in OrderDefs : LoadOrdered(y)
    \/ GradeAgainst

SpecOrder == Init /\ [][NextOrder]_vars

PosIn(seq, x) == CHOOSE p \in 1..Len(seq) : seq[p] = x
Indexed(c) == IsSome(IndexOf(c))
\* the entries the members at the positions of order leave in the list of the
\* results equal to want, in that order
RECURSIVE EntriesOf(_, _, _, _)
EntriesOf(cs, order, data, want) ==
    IF order = << >> THEN << >>
    ELSE LET c == cs[Head(order)]
             rest == EntriesOf(cs, Tail(order), data, want)
         IN  IF Call(c.test, data).value = want
             THEN <<c.name \o ": " \o c.messages[IF want THEN 1 ELSE 2]>> \o rest
             ELSE rest

\* C12 as stated: grade_against evaluates the members in stored insertion
\* order: whenever a stands before b in the set, a is run before b.
C12_AsStated_InsertionOrder ==
    \A k \in 1..Len(log) :
        Completed(k) =>
            \A a, b \in 1..log[k].n :
                a < b => PosIn(log[k].evals, a) < PosIn(log[k].evals, b)

\* C12, amended: grade_against evaluates every member once, in the order of
\* sorted(): a member with a lower index runs before one with a higher index
\* wherever they stand in the set; of two members that both carry no index, or
\* carry the same one, the one stored first runs first; the entries of passed
\* and of failed follow the order of evaluation; passes over the same set and
\* data evaluate in the same order.
C12_RunsInIndexOrder ==
    \A k \in 1..Len(log) :
        Completed(k) =>
            LET n == log[k].n
                ev == log[k].evals
                data == log[k].before.data
            IN  /\ Len(ev) = n
                /\ \A a \in 1..n : \E p \in 1..n : ev[p] = a
                /\ \A a, b \in 1..n :
                    (/\ Indexed(criteria[a]) /\ Indexed(criteria[b])
                     /\ Unwrap(criteria[a].index) < Unwrap(criteria[b].index))
                        => PosIn(ev, a) < PosIn(ev, b)
                /\ \A a, b \in 1..n :
                    (a < b /\ IndexOf(criteria[a]) = IndexOf(criteria[b]))
                        => PosIn(ev, a) < PosIn(ev, b)
                /\ log[k].after.passed =
                        log[k].before.passed \o EntriesOf(criteria, ev, data, TRUE)
                /\ log[k].after.failed =
                        log[k].before.failed \o EntriesOf(criteria, ev, data, FALSE)
                /\ \A h \in 1..Len(log) :
                    (Completed(h) /\ log[h].n = n /\ log[h].before.data = data)
                        => log[h].evals = ev

C12_Witness ==
    /\ Len(log) = 1 /\ Completed(1) /\ log[1].n = 2 /\ Len(criteria) = 2
    /\ criteria[1].index = Some(2) /\ criteria[2].index = Some(1)
    /\ log[1].evals = <<2, 1>>
    /\ sub.passed = <<"c2: passed", "c1: passed">>

(***************************************************************************)
(* Building a Criteria: from a Vec, and by add.                            *)
(***************************************************************************)
RECURSIVE SeqsUpTo(_, _)
SeqsUpTo(S, n) ==
    IF n = 0 THEN {<< >>}
    ELSE LET shorter == SeqsUpTo(S, n - 1)
         IN  shorter \cup {Append(v, x) : v \in shorter, x \in S}

\* let criteria = Criteria::from(v)
From(v) ==
    /\ Running
    /\ criteria' = from(v)
    /\ ret' = [op |-> "from", arg |-> v]
    /\ UNCHANGED <<crit, sub, proc, exit_code, overflow_checks, log>>

\* criteria.add(c), the argument remembered
AddGiven(c) ==
    /\ Running
    /\ Len(criteria) < MaxCriteria
    /\ criteria' = add(criteria, c)
    /\ ret' = [op |-> "add", arg |-> c]
    /\ UNCHANGED <<crit, sub, proc, exit_code, overflow_checks, log>>

NextBuild ==
    \/ \E v \in SeqsUpTo(Built, MaxCriteria) : From(v)
    \/ \E c \in Built : AddGiven(c)

SpecBuild == InitTotal /\ [][NextBuild]_vars

\* C13: add makes the set one longer, with the new criterion at the last
\* position and every earlier member at the position it had; a set built from a
\* sequence has the length of the sequence and its members in the same order.
C13_AddAppendsFromKeepsOrder ==
    [][/\ ret'.op = "add" =>
            /\ Len(criteria') = Len(criteria) + 1
            /\ criteria'[Len(criteria')] = ret'.arg
            /\ \A i \in 1..Len(criteria) : criteria'[i] = criteria[i]
       /\ ret'.op = "from" =>
            /\ Len(criteria') = Len(ret'.arg)
            /\ \A i \in 1..Len(ret'.arg) : criteria'[i] = ret'.arg[i]]_vars

C13_Witness ==
    /\ ret.op = "add"
    /\ Len(criteria) = 2
    /\ criteria[2] = ret.arg
    /\ criteria[1] # criteria[2]

(***************************************************************************)
(* AsCsv for TestData and for Submission (submission.rs).                  *)
(***************************************************************************)
MaxEntries == 1
CsvKeys == {"a1", "b2"}
CsvValues == {"value1", "value2"}
CsvDataSet == UNION {[D -> CsvValues] : D \in SUBSET CsvKeys}

\* String's Ord on the strings in use: "a1" < "b2" < "value1" < "value2"
Rank(str) ==
    CASE str = "a1" -> 1
      [] str = "b2" -> 2
      [] str = "value1" -> 3
      [] OTHER -> 4
cmp_less(a, b) == Rank(a) < Rank(b)

\* Vec::sort_by(|a, b| a.cmp(&b)); equal strings are the same string, so the
\* result does not depend on the order the items came in
RECURSIVE sort_insert(_, _)
sort_insert(x, v) ==
    IF v = << >> THEN <<x>>
    ELSE IF cmp_less(Head(v), x) THEN <<Head(v)>> \o sort_insert(x, Tail(v))
    ELSE <<x>> \o v
RECURSIVE sort_by_cmp(_)
sort_by_cmp(v) == IF v = << >> THEN << >> ELSE sort_insert(Head(v), sort_by_cmp(Tail(v)))

\* [String]::join(sep)
RECURSIVE join(_, _)
join(v, sep) ==
    IF v = << >> THEN ""
    ELSE IF Len(v) = 1 THEN v[1]
    ELSE v[1] \o sep \o join(Tail(v), sep)

\* HashMap::keys() and HashMap::values(): the entries in the map's iteration
\* order, which is arbitrary but the same for both; one such order is taken,
\* the sort that follows makes the choice immaterial
RECURSIVE iteration(_)
iteration(S) ==
    IF S = {} THEN << >>
    ELSE LET k == CHOOSE x \in S : TRUE IN <<k>> \o iteration(S \ {k})
keys(data) == iteration(DOMAIN data)
values(data) == [i \in 1..Len(keys(data)) |-> data[keys(data)[i]]]

\* <TestData as AsCsv>::as_csv
data_as_csv(data) == join(sort_by_cmp(values(data)), ",")
\* <TestData as AsCsv>::header
data_header(data) == join(sort_by_cmp(keys(data)), ",")

\* DateTime::to_rfc3339: time is kept as its RFC 3339 text
to_rfc3339(t) == t
\* <Submission as AsCsv>::as_csv
sub_as_csv(s) ==
    join(<<to_rfc3339(s.time), ToString(s.grade), join(s.passed, ";"),
           join(s.failed, ";"), data_as_csv(s.data)>>, ",")
\* <Submission as AsCsv>::header
sub_header(s) == "time,grade,passed,failed," \o data_header(s.data)

\* sub.pass(entry)
SubPass(entry) ==
    /\ Running
    /\ Len(sub.passed) < MaxEntries
    /\ sub' = pass(sub, entry)
    /\ ret' = [op |-> "pass"]
    /\ UNCHANGED <<criteria, crit, proc, exit_code, overflow_checks, log>>

\* sub.fail(entry)
SubFail(entry) ==
    /\ Running
    /\ Len(sub.failed) < MaxEntries
    /\ sub' = fail(sub, entry)
    /\ ret' = [op |-> "fail"]
    /\ UNCHANGED <<criteria, crit, proc, exit_code, overflow_checks, log>>

\* the header line and the row written for the submission
WriteCsv ==
    /\ Running
    /\ ret' = [op |-> "as_csv",
               header |-> sub_header(sub),
               row |-> sub_as_csv(sub),
               data_header |-> data_header(sub.data),
               data_row |-> data_as_csv(sub.data)]
    /\ UNCHANGED <<criteria, crit, sub, proc, exit_code, overflow_checks, log>>

CsvEntries == {Format(NameOf(w), Messages[1]) : w \in Worths}

InitCsv ==
    /\ criteria = << >>
    /\ crit = None
    /\ sub \in {from_data(d) : d \in CsvDataSet}
    /\ proc = "running"
    /\ exit_code = 0
    /\ overflow_checks = FALSE
    /\ ret = [op |-> "init"]
    /\ log = << >>

NextCsv ==
    \/ \E e \in CsvEntries : SubPass(e)
    \/ \E e \in CsvEntries : SubFail(e)
    \/ WriteCsv

SpecCsv == InitCsv /\ [][NextCsv]_vars

\* the keys of data in alphabetical order
KeysInOrder(data) ==
    [r \in 1..Cardinality(DOMAIN data) |->
        CHOOSE k \in DOMAIN data :
            Cardinality({j \in DOMAIN data : Rank(j) < Rank(k)}) = r - 1]

\* C14: the data part of a CSV row lists the values in the alphabetical order
\* of their keys: the i-th value of the row is the value of the i-th key of
\* the header, also when the values sort differently from their keys.
C14_AsStated_RowFollowsHeader ==
    ret.op = "as_csv" =>
        LET ks == KeysInOrder(sub.data) IN
        /\ ret.data_header = join(ks, ",")
        /\ ret.data_row = join([i \in 1..Len(ks) |-> sub.data[ks[i]]], ",")
        /\ ret.header = "time,grade,passed,failed," \o ret.data_header
        /\ ret.row = join(<<sub.time, ToString(sub.grade), join(sub.passed, ";"),
                            join(sub.failed, ";"), ret.data_row>>, ",")

(***************************************************************************)
(* Rubric entries turned into criteria (yaml.rs).                          *)
(***************************************************************************)
MaxLoaded == 1
RubricDefs ==
    {Yaml(f, ix, d, w, m, h) :
        f \in {None, Some("always_true"), Some("not_registered")},
        ix \in {None, Some(1)},
        d \in {None, Some("short desc")},
        w \in {10, -5},
        m \in {None, Some(Messages)},
        h \in {None, Some(TRUE), Some(FALSE)}}

\* criteria.add(entry.into_criterion(key)), unless the process ended on the way
LoadEntry(y) ==
    /\ Running
    /\ Len(criteria) < MaxLoaded
    /\ LET key == KeyAt(Len(criteria) + 1)
           r == into_criterion(y, key)
       IN  /\ criteria' = IF r.exit THEN criteria ELSE add(criteria, r.crit)
           /\ proc' = IF r.exit THEN "exited" ELSE "running"
           /\ exit_code' = IF r.exit THEN 1 ELSE 0
           /\ ret' = [op |-> "into_criterion", key |-> key, yaml |-> y,
                      n |-> Len(criteria)]
    /\ UNCHANGED <<crit, sub, overflow_checks, log>>

NextRubric == \E y \in RubricDefs : LoadEntry(y)

SpecRubric == InitTotal /\ [][NextRubric]_vars

\* the entry of the last load named a func the registry does not hold
Unregistered == IsSome(ret.yaml.func) /\ Unwrap(ret.yaml.func) \notin Registry
OrElse(o, default) == IF IsSome(o) THEN Unwrap(o) ELSE default

\* C15: the criterion built from a rubric entry has the mapping key as its stub
\* and as its name and the entry's worth; messages, func, hide, desc and index
\* are those of the entry where the entry gives them and the builder's
\* defaults where it does not.
C15_EntryBecomesCriterion ==
    (ret.op = "into_criterion" /\ ~Unregistered) =>
        LET c == criteria[Len(criteria)]
            y == ret.yaml
        IN  /\ Len(criteria) = ret.n + 1
            /\ c.stub = ret.key
            /\ c.name = ret.key
            /\ c.worth = y.worth
            /\ c.messages = OrElse(y.messages, <<"passed", "failed">>)
            /\ c.test = OrElse(y.func, "always_false")
            /\ c.hide = OrElse(y.hide, FALSE)
            /\ c.desc = OrElse(y.desc, "")
            /\ c.index = y.index

C15_Witness ==
    /\ ret.op = "into_criterion"
    /\ ret.yaml = Yaml(Some("always_true"), Some(1), Some("short desc"), -5, None, Some(TRUE))
    /\ Len(criteria) = 1
    /\ criteria[1].stub = "c1" /\ criteria[1].name = "c1"
    /\ criteria[1].worth = -5
    /\ criteria[1].messages = DefaultMessages
    /\ criteria[1].desc = "short desc"

\* C16: loading an entry whose func is not in the registry ends the process
\* with a non-zero exit status; no criterion, with a default test or any
\* other, is added for it.
C16_UnregisteredFuncIsFatal ==
    (ret.op = "into_criterion" /\ Unregistered) =>
        /\ proc = "exited"
        /\ exit_code # 0
        /\ Len(criteria) = ret.n
        /\ \A i \in 1..Len(criteria) : criteria[i].stub # ret.key

C16_Witness ==
    /\ ret.op = "into_criterion"
    /\ ret.yaml.func = Some("not_registered")
    /\ proc = "exited"
    /\ exit_code = 1
    /\ criteria = << >>

(***************************************************************************)
(* What grade_against leaves alone.                                        *)
(***************************************************************************)
\* the positions the last recorded pass evaluated
Evaluated(lg) == {lg[Len(lg)].evals[j] : j \in 1..Len(lg[Len(lg)].evals)}

\* C17: grade_against changes only the submission's grade, passed and failed
\* and the status of the members it ran: data and time are as before, the set
\* has the same members in the same places with the same stub, name, worth,
\* messages, desc, hide and test, and a member it did not run is untouched.
C17_TouchesOnlyResultsAndStatus ==
    [][ret'.op = "grade_against" =>
        /\ sub'.data = sub.data
        /\ sub'.time = sub.time
        /\ DOMAIN sub' = DOMAIN sub
        /\ crit' = crit
        /\ Len(criteria') = Len(criteria)
        /\ \A i \in 1..Len(criteria) :
            /\ [criteria'[i] EXCEPT !.status = criteria[i].status] = criteria[i]
            /\ i \notin Evaluated(log') => criteria'[i] = criteria[i]]_vars

C17_Witness ==
    /\ ret.op = "grade_against"
    /\ Len(log) = 1 /\ Completed(1)
    /\ Len(criteria) = 2
    /\ sub.data # EmptyData
    /\ sub.grade = 10
    /\ criteria[1].status = Some(TRUE) /\ criteria[1].worth = 10
    /\ criteria[2].status = Some(FALSE) /\ criteria[2].test = "key_is_value"

(***************************************************************************)
(* Grading with tests that panic on some data: the set is graded, the      *)
(* submission is given other data (use_data), and the set is graded again. *)
(***************************************************************************)
PanicBuilt ==
    {New(NameOf(w), w, Messages, t) : w \in {10, -5}, t \in {"always_true", "key_is_value"}}

\* sub.use_data(d)
UseData(d) ==
    /\ Running
    /\ sub.data # d
    /\ sub' = use_data(sub, d)
    /\ ret' = [op |-> "use_data"]
    /\ UNCHANGED <<criteria, crit, proc, exit_code, overflow_checks, log>>

NextPanic ==
    \/ \E c \in PanicBuilt : Add(c)
    \/ \E d \in DataSet : UseData(d)
    \/ GradeAgainst

SpecPanic == Init /\ [][NextPanic]_vars

\* C18: a test that panics during grade_against is not caught: the panic leaves
\* grade_against, the status of the criterion whose test panicked is what it
\* was before the call, no later criterion is run or changed, and the grade and
\* the entries the earlier criteria gave stay on the submission.
C18_PanicPropagatesNoRollback ==
    /\ [][(ret'.op = "grade_against"
           /\ \E i \in 1..Len(criteria) : Call(criteria[i].test, sub.data).panicked) =>
            LET k == Min({i \in 1..Len(criteria) : Call(criteria[i].test, sub.data).panicked})
                ran == [j \in 1..(k - 1) |-> j]
            IN  /\ proc' = "panicked"
                /\ log'[Len(log')].panicked
                /\ log'[Len(log')].evals = ran
                /\ criteria'[k] = criteria[k]
                /\ \A i \in (k + 1)..Len(criteria) : criteria'[i] = criteria[i]
                /\ \A i \in 1..(k - 1) :
                    criteria'[i].status = Some(Call(criteria[i].test, sub.data).value)
                /\ sub'.grade = sub.grade + SumWorth(criteria, Passing(criteria, k - 1, sub.data))
                /\ sub'.passed = sub.passed \o EntriesOf(criteria, ran, sub.data, TRUE)
                /\ sub'.failed = sub.failed \o EntriesOf(criteria, ran, sub.data, FALSE)]_vars
    /\ [][proc = "panicked" => UNCHANGED vars]_vars

C18_Witness ==
    /\ proc = "panicked"
    /\ Len(log) = 2 /\ Completed(1) /\ log[2].panicked
    /\ Len(criteria) = 2
    /\ log[2].evals = <<1>>
    /\ criteria[1].test = "always_true" /\ criteria[1].worth = 10
    /\ criteria[2].test = "key_is_value" /\ criteria[2].status = Some(TRUE)
    /\ sub.data = EmptyData
    /\ log[1].after.grade = 20
    /\ sub.grade = 30
    /\ Len(sub.passed) = 3

====
